---------------------------- MODULE Spec2Model ----------------------------
(***************************************************************************)
(* Model of process_log.py (kbarbary/insight): the bounded top-k           *)
(* dictionary TopKDict, the login ledger BlockList and the session log     *)
(* Sessions.  Each class is an object held in one variable (a record of    *)
(* its fields); each method is an operator from the object and the call's  *)
(* arguments to the object after the call, and an action that applies it   *)
(* to inputs drawn from small sets.                                        *)
(***************************************************************************)
EXTENDS Integers, Sequences, FiniteSets, TLC

VARIABLES
    topk,        \* the TopKDict object: k, items (the dict), sorted_keys
    offer,       \* arguments of the last d[key] = value call (key None: no call yet)
    maxOffered,  \* history: key -> greatest value ever offered for it
    maxSince,    \* history: retained key -> greatest value offered since
                 \*          the key was last inserted
    exPos,       \* history: how much of the docstring example has been fed
    before,      \* history: the TopKDict object as the last call found it
    blocklist,   \* the BlockList object: fail_limit, fail_time, block_time,
                 \*   blocking (host -> block start), failures (host -> list)
    call,        \* arguments of the last handle(host, time, success) call
    ret,         \* what that call returned
    blBefore,    \* history: the BlockList object as the last call found it
    recent,      \* history: host -> times of its failed attempts that were
                 \*   not answered as blocked, since its most recent
                 \*   unblocked success or block
    counted,     \* history: for a failed attempt at t not answered as
                 \*   blocked, how many of those failures, this one
                 \*   included, lie in [t - fail_time, t]; else 0
    scen,        \* history: how far the calls for host b follow the scenario
                 \*   of test_blocklist
    solo,        \* history: host -> a BlockList with the same parameters
                 \*   that is given the calls for that host only
    soloRet,     \* history: what that object returned for the last call
    sessions,    \* the Sessions object: inactive_limit, active_sessions
                 \*   (host -> <<start, end>>), clear_interval,
                 \*   logs_since_cleared, nsessions, total_length, max_length
    logged,      \* history: the log(host, time) calls made, in order
    returned,    \* history: what the summary_statistics calls returned
    sessBefore,  \* history: the Sessions object before the last call
    pc,          \* main: "reading" (in the loop over the log), "done", or
                 \*   the exception that ended the run
    nlines,      \* main: lines read
    host_requests,      \* main: Counter host -> requests
    resource_bytes,     \* main: Counter resource -> bytes
    recent_timestamps,  \* main: deque of the timestamps of the last hour
    files,       \* the five output files: whether opened, lines written
    input,       \* history: the raw lines read, in order
    handled,     \* history: the block_list.handle calls of main, in order
    closed       \* history: the (hour_start, n) pairs set in top_hours

topkVars == <<topk, offer, maxOffered, maxSince, exPos, before>>
blockVars ==
    <<blocklist, call, ret, blBefore, recent, counted, scen, solo, soloRet>>
sessVars == <<sessions, logged, returned, sessBefore>>
mainVars ==
    <<pc, nlines, host_requests, resource_bytes, recent_timestamps, files,
      input, handled, closed>>
vars == <<topkVars, blockVars, sessVars, mainVars>>

None == "None"

Max(a, b) == IF a >= b THEN a ELSE b

Last(s) == s[Len(s)]

(***************************************************************************)
(* Bounds of the model.                                                    *)
(***************************************************************************)
MaxK == 3
MaxVal == 4
MaxFailLimit == 2
MaxFailTime == 2
MaxBlockTime == 2
MaxTime == 3
MaxLimit == 2
MaxInterval == 1
MaxSessTime == 2
MaxLogs == 4
MaxLines == 5

Keys == {"a", "b", "c", "d"}
Vals == 1..MaxVal

(***************************************************************************)
(* Python dict operations on a function whose domain is the key set.       *)
(***************************************************************************)
DictSet(dict, key, value) ==
    [x \in DOMAIN dict \cup {key} |-> IF x = key THEN value ELSE dict[x]]

DictDel(dict, key) == [x \in DOMAIN dict \ {key} |-> dict[x]]

EmptyDict == [x \in {} |-> 0]

(***************************************************************************)
(* list.sort(key=lambda x: self[x], reverse=True): a stable sort by value, *)
(* greatest first; keys of equal value keep their relative order.          *)
(***************************************************************************)
RECURSIVE InsertDesc(_, _, _)
InsertDesc(s, x, dict) ==
    IF s = <<>> THEN <<x>>
    ELSE IF dict[Head(s)] >= dict[x]
         THEN <<Head(s)>> \o InsertDesc(Tail(s), x, dict)
         ELSE <<x>> \o s

RECURSIVE SortDescInto(_, _, _)
SortDescInto(acc, rest, dict) ==
    IF rest = <<>> THEN acc
    ELSE SortDescInto(InsertDesc(acc, Head(rest), dict), Tail(rest), dict)

SortDesc(s, dict) == SortDescInto(<<>>, s, dict)

(***************************************************************************)
(* TopKDict                                                                *)
(***************************************************************************)
TopKDictInit(k) == [k |-> k, items |-> EmptyDict, sorted_keys |-> <<>>]

Resort(self) ==
    [self EXCEPT !.sorted_keys = SortDesc(self.sorted_keys, self.items)]

\* Mutant: an existing key is overwritten by any value.
SetItem_Overwrite(self, key, value) ==
    IF key \in DOMAIN self.items
    THEN Resort([self EXCEPT !.items = DictSet(self.items, key, value)])
    ELSE IF Cardinality(DOMAIN self.items) < self.k
    THEN Resort([self EXCEPT !.items = DictSet(self.items, key, value),
                             !.sorted_keys = Append(self.sorted_keys, key)])
    ELSE IF value > self.items[Last(self.sorted_keys)]
    THEN Resort([self EXCEPT
                   !.items = DictSet(DictDel(self.items,
                                             Last(self.sorted_keys)),
                                     key, value),
                   !.sorted_keys = [self.sorted_keys
                                      EXCEPT ![Len(self.sorted_keys)] = key]])
    ELSE self

\* Mutant: a full map evicts its minimum for a value that only equals it.
SetItem_EvictOnTie(self, key, value) ==
    IF key \in DOMAIN self.items
    THEN IF self.items[key] < value
         THEN Resort([self EXCEPT !.items = DictSet(self.items, key, value)])
         ELSE Resort(self)
    ELSE IF Cardinality(DOMAIN self.items) < self.k
    THEN Resort([self EXCEPT !.items = DictSet(self.items, key, value),
                             !.sorted_keys = Append(self.sorted_keys, key)])
    ELSE IF value >= self.items[Last(self.sorted_keys)]
    THEN Resort([self EXCEPT
                   !.items = DictSet(DictDel(self.items,
                                             Last(self.sorted_keys)),
                                     key, value),
                   !.sorted_keys = [self.sorted_keys
                                      EXCEPT ![Len(self.sorted_keys)] = key]])
    ELSE self

\* Mutant: the re-sort after an update is forgotten.
SetItem_NoResort(self, key, value) ==
    IF key \in DOMAIN self.items
    THEN IF self.items[key] < value
         THEN [self EXCEPT !.items = DictSet(self.items, key, value)]
         ELSE self
    ELSE IF Cardinality(DOMAIN self.items) < self.k
    THEN [self EXCEPT !.items = DictSet(self.items, key, value),
                      !.sorted_keys = Append(self.sorted_keys, key)]
    ELSE IF value > self.items[Last(self.sorted_keys)]
    THEN [self EXCEPT
            !.items = DictSet(DictDel(self.items, Last(self.sorted_keys)),
                              key, value),
            !.sorted_keys = [self.sorted_keys
                               EXCEPT ![Len(self.sorted_keys)] = key]]
    ELSE self

\* TopKDict.__setitem__: d[key] = value
SetItem(self, key, value) ==
    IF key \in DOMAIN self.items
    THEN IF self.items[key] < value
         THEN Resort([self EXCEPT !.items = DictSet(self.items, key, value)])
         ELSE Resort(self)
    ELSE IF Cardinality(DOMAIN self.items) < self.k
    THEN Resort([self EXCEPT !.items = DictSet(self.items, key, value),
                             !.sorted_keys = Append(self.sorted_keys, key)])
    ELSE IF value > self.items[Last(self.sorted_keys)]
    THEN Resort([self EXCEPT
                   !.items = DictSet(DictDel(self.items,
                                             Last(self.sorted_keys)),
                                     key, value),
                   !.sorted_keys = [self.sorted_keys
                                      EXCEPT ![Len(self.sorted_keys)] = key]])
    ELSE self

(***************************************************************************)
(* The docstring example: TopKDict(2) fed a:1, b:2, c:3, d:4 in order.     *)
(* ExampleNext follows the calls made so far: n when they are exactly the  *)
(* first n offers of the example, -1 once they have left it.               *)
(***************************************************************************)
Example == << [key |-> "a", value |-> 1], [key |-> "b", value |-> 2],
              [key |-> "c", value |-> 3], [key |-> "d", value |-> 4] >>

ExampleNext(pos, key, value) ==
    IF pos >= 0 /\ pos < Len(Example)
       /\ Example[pos + 1] = [key |-> key, value |-> value]
    THEN pos + 1
    ELSE -1

(***************************************************************************)
(* History of the offers, kept beside the object.                          *)
(***************************************************************************)
MaxOfferedNext(hist, key, value) ==
    DictSet(hist, key, IF key \in DOMAIN hist THEN Max(hist[key], value)
                       ELSE value)

\* Restarted at value when this call inserts key, dropped with an evicted key.
MaxSinceNext(hist, old, new, key, value) ==
    [x \in DOMAIN new.items |->
        IF x = key
        THEN IF key \in DOMAIN old.items THEN Max(hist[key], value)
             ELSE value
        ELSE hist[x]]

InitTopK ==
    /\ \E k \in 1..MaxK : topk = TopKDictInit(k)
    /\ offer = [key |-> None, value |-> 0]
    /\ maxOffered = EmptyDict
    /\ maxSince = EmptyDict
    /\ exPos = 0
    /\ before = topk

Offer ==
    \E key \in Keys, value \in Vals :
        /\ topk' = SetItem(topk, key, value)
        /\ offer' = [key |-> key, value |-> value]
        /\ maxOffered' = MaxOfferedNext(maxOffered, key, value)
        /\ maxSince' = MaxSinceNext(maxSince, topk, topk', key, value)
        /\ exPos' = ExampleNext(exPos, key, value)
        /\ before' = topk

IdleTopK ==
    /\ topk = TopKDictInit(1)
    /\ offer = [key |-> None, value |-> 0]
    /\ maxOffered = EmptyDict
    /\ maxSince = EmptyDict
    /\ exPos = 0
    /\ before = topk


(***************************************************************************)
(* BlockList                                                               *)
(***************************************************************************)
Hosts == {"a", "b"}

\* Timestamps are whole seconds; (t1 - t2).total_seconds() is t1 - t2.
Times == 0..MaxTime

\* BlockList(fail_limit=2, fail_time=10., block_time=60.) of test_blocklist
TestFailLimit == 2
TestFailTime == 10
TestBlockTime == 60

\* Times around the bounds of that test: the failures, the last second of
\* the block that starts at 10 and the first second after it.
TestTimes == {0, 5, 9, 10, 11, 69, 70, 71, 80}

BlockListInit(fail_limit, fail_time, block_time) ==
    [fail_limit |-> fail_limit, fail_time |-> fail_time,
     block_time |-> block_time,
     blocking |-> EmptyDict, failures |-> EmptyDict]

\* Mutant: the block ends at block_time seconds, not after them.
StillBlocking_Exclusive(self, host, time) ==
    /\ host \in DOMAIN self.blocking
    /\ ~(time - self.blocking[host] >= self.block_time)

\* host is blocked and the block has not expired: handle returns True
StillBlocking(self, host, time) ==
    /\ host \in DOMAIN self.blocking
    /\ ~(time - self.blocking[host] > self.block_time)

\* del self._blocking[host], reached only when the block has expired
Expire(self, host) ==
    [self EXCEPT !.blocking = DictDel(self.blocking, host)]

\* Mutant: a success clears the failure history of every host.
ClearFailures_All(self, host) == [self EXCEPT !.failures = EmptyDict]

\* Mutant: a success leaves the failure history in place.
ClearFailures_Keep(self, host) == self

\* if host in self._failures: del self._failures[host]
ClearFailures(self, host) ==
    [self EXCEPT !.failures = DictDel(self.failures, host)]

\* Mutant: old failures are never dropped.
PruneFront_None(failures, time, fail_time) == failures

\* Mutant: a failure exactly fail_time seconds old is dropped.
RECURSIVE PruneFront_Tie(_, _, _)
PruneFront_Tie(failures, time, fail_time) ==
    IF Len(failures) > 0 /\ time - failures[1] >= fail_time
    THEN PruneFront_Tie(Tail(failures), time, fail_time)
    ELSE failures

\* while len(failures) > 0 and time - failures[0] > fail_time: pop(0)
RECURSIVE PruneFront(_, _, _)
PruneFront(failures, time, fail_time) ==
    IF Len(failures) > 0 /\ time - failures[1] > fail_time
    THEN PruneFront(Tail(failures), time, fail_time)
    ELSE failures

\* Mutant: the host is blocked one failure late.
RecordFailure_Late(self, host, time) ==
    LET old == IF host \in DOMAIN self.failures THEN self.failures[host]
               ELSE <<>>
        failures == Append(PruneFront(old, time, self.fail_time), time)
    IN  IF Len(failures) > self.fail_limit
        THEN [self EXCEPT !.blocking = DictSet(self.blocking, host, time),
                          !.failures = DictDel(self.failures, host)]
        ELSE [self EXCEPT !.failures = DictSet(self.failures, host, failures)]

\* a failed login that is not blocked: log it, block at the limit
RecordFailure(self, host, time) ==
    LET old == IF host \in DOMAIN self.failures THEN self.failures[host]
               ELSE <<>>
        failures == Append(PruneFront(old, time, self.fail_time), time)
    IN  IF Len(failures) >= self.fail_limit
        THEN [self EXCEPT !.blocking = DictSet(self.blocking, host, time),
                          !.failures = DictDel(self.failures, host)]
        ELSE [self EXCEPT !.failures = DictSet(self.failures, host, failures)]

\* Mutant: an attempt made during a block restarts the block.
Handle_ExtendBlock(self, host, time, success) ==
    IF StillBlocking(self, host, time)
    THEN [self |-> [self EXCEPT !.blocking =
                                   DictSet(self.blocking, host, time)],
          ret |-> TRUE]
    ELSE LET unblocked == IF host \in DOMAIN self.blocking
                          THEN Expire(self, host) ELSE self
         IN  IF success
             THEN [self |-> ClearFailures(unblocked, host), ret |-> FALSE]
             ELSE [self |-> RecordFailure(unblocked, host, time),
                   ret |-> FALSE]

\* BlockList.handle: the object after the call and the value returned
Handle(self, host, time, success) ==
    IF StillBlocking(self, host, time)
    THEN [self |-> self, ret |-> TRUE]
    ELSE LET unblocked == IF host \in DOMAIN self.blocking
                          THEN Expire(self, host) ELSE self
         IN  IF success
             THEN [self |-> ClearFailures(unblocked, host), ret |-> FALSE]
             ELSE [self |-> RecordFailure(unblocked, host, time),
                   ret |-> FALSE]

(***************************************************************************)
(* History of the handle calls, kept beside the object.                    *)
(***************************************************************************)
\* This call put host into the blocking map (with a new block start).
Moved(old, new, host) ==
    /\ host \in DOMAIN new.blocking
    /\ \/ host \notin DOMAIN old.blocking
       \/ new.blocking[host] # old.blocking[host]

\* How many of the times lie in [time - fail_time, time].
InWindow(times, time, fail_time) ==
    Cardinality({i \in 1..Len(times) :
                    times[i] >= time - fail_time /\ times[i] <= time})

\* The calls for host b of the scenario: failures at 0 and at 10 (positions
\* 1 and 2), then calls while the block that started at 10 lasts, up to
\* 10 + 60 (position 3), then the first call after it (position 4).  -1: the
\* calls for b are not, or no longer, those of the scenario.
ScenarioNext(pos, host, time, success) ==
    IF host # "b" THEN pos
    ELSE CASE pos = 0 -> IF time = 0 /\ ~success THEN 1 ELSE -1
           [] pos = 1 -> IF time = TestFailTime /\ ~success THEN 2 ELSE -1
           [] pos \in {2, 3} ->
                IF time - TestFailTime <= TestBlockTime THEN 3 ELSE 4
           [] OTHER -> -1

BlockStart(self) ==
    /\ blocklist = self
    /\ call = [host |-> None, time |-> 0, success |-> FALSE]
    /\ ret = FALSE
    /\ blBefore = self
    /\ recent = [h \in Hosts |-> <<>>]
    /\ counted = 0
    /\ scen = 0
    /\ solo = [h \in Hosts |-> self]
    /\ soloRet = FALSE

InitBlock ==
    \E fail_limit \in 1..MaxFailLimit, fail_time \in 0..MaxFailTime,
       block_time \in 0..MaxBlockTime :
        BlockStart(BlockListInit(fail_limit, fail_time, block_time))

InitBlockTest ==
    BlockStart(BlockListInit(TestFailLimit, TestFailTime, TestBlockTime))

\* block_list = BlockList(fail_limit=3, fail_time=20.0, block_time=300.0)
MainFailLimit == 3
MainFailTime == 20
MainBlockTime == 300

\* Times around the bounds of main's BlockList.
MainBlockTimes == {0, 10, 20, 21, 30, 320, 321}

InitBlockMain ==
    BlockStart(BlockListInit(MainFailLimit, MainFailTime, MainBlockTime))

IdleBlock == BlockStart(BlockListInit(1, 0, 0))

\* One handle call, its time drawn from T and not before the previous one.
HandleAt(T) ==
    \E host \in Hosts, time \in T, success \in BOOLEAN :
        /\ time >= call.time
        /\ LET r == Handle(blocklist, host, time, success)
               alone == Handle(solo[host], host, time, success)
               fails == Append(recent[host], time)
           IN  /\ blocklist' = r.self
               /\ solo' = [solo EXCEPT ![host] = alone.self]
               /\ soloRet' = alone.ret
               /\ ret' = r.ret
               /\ call' = [host |-> host, time |-> time, success |-> success]
               /\ blBefore' = blocklist
               /\ counted' = IF ~success /\ ~r.ret
                             THEN InWindow(fails, time, blocklist.fail_time)
                             ELSE 0
               /\ recent' = [recent EXCEPT ![host] =
                               IF r.ret THEN @
                               ELSE IF success \/ Moved(blocklist, r.self, host)
                                    THEN <<>>
                                    ELSE fails]

\* The scenario is followed through the calls of test_blocklist's object.
FollowScenario ==
    scen' = ScenarioNext(scen, call'.host, call'.time, call'.success)

(***************************************************************************)
(* Sessions                                                                *)
(***************************************************************************)
\* Sessions.__init__: inactive_limit=1800., self._clear_interval = 100000
DefaultInactiveLimit == 1800
DefaultClearInterval == 100000

\* Times of the log calls: a few consecutive seconds, and two far enough
\* apart for the default limit.
SessTimes == (0..MaxSessTime) \cup {100, 2000}

RECURSIVE GCD(_, _)
GCD(a, b) == IF b = 0 THEN a ELSE GCD(b, a % b)

\* total / n, n > 0, as a fraction in lowest terms: <<numerator, denominator>>
Quotient(total, n) ==
    LET g == GCD(total, n) IN <<total \div g, n \div g>>

SessionsInit(inactive_limit, clear_interval) ==
    [inactive_limit |-> inactive_limit,
     active_sessions |-> EmptyDict,
     clear_interval |-> clear_interval,
     logs_since_cleared |-> 0,
     nsessions |-> 0,
     total_length |-> 0,
     max_length |-> 0]

\* Mutant: the length of a saved session is left out of the total.
SaveSession_NoTotal(self, duration) ==
    LET length == duration[2] - duration[1]
    IN  [self EXCEPT !.nsessions = self.nsessions + 1,
                     !.max_length = IF length > self.max_length
                                    THEN length ELSE self.max_length]

\* Sessions._save_session; duration is <<start_time, end_time>>
SaveSession(self, duration) ==
    LET length == duration[2] - duration[1]
    IN  [self EXCEPT !.nsessions = self.nsessions + 1,
                     !.total_length = self.total_length + length,
                     !.max_length = IF length > self.max_length
                                    THEN length ELSE self.max_length]

\* for host in hosts: self._save_session(self._active_sessions[host])
RECURSIVE SaveSessions(_, _)
SaveSessions(self, hosts) ==
    IF hosts = {} THEN self
    ELSE LET host == CHOOSE h \in hosts : TRUE
         IN  SaveSessions(SaveSession(self, self.active_sessions[host]),
                          hosts \ {host})

\* Mutant: the sweep closes a session one second before it is inactive.
SweepInactive_Early(self, host, current_time) ==
    current_time - self.active_sessions[host][2] >= self.inactive_limit - 1

\* _clear_inactive: idle_time >= self.inactive_limit
SweepInactive(self, host, current_time) ==
    current_time - self.active_sessions[host][2] >= self.inactive_limit

\* Sessions._clear_inactive
ClearInactive(self, current_time) ==
    LET inactive == {host \in DOMAIN self.active_sessions :
                        SweepInactive(self, host, current_time)}
        saved == SaveSessions(self, inactive)
    IN  [saved EXCEPT !.active_sessions =
            [host \in DOMAIN self.active_sessions \ inactive |->
                self.active_sessions[host]]]

\* Mutant: the sessions stay active after they have been saved.
ClearAll_KeepActive(self) ==
    SaveSessions(self, DOMAIN self.active_sessions)

\* Sessions._clear_all
ClearAll(self) ==
    [SaveSessions(self, DOMAIN self.active_sessions)
        EXCEPT !.active_sessions = EmptyDict]

\* the periodic sweep at the head of Sessions.log
MaybeSweep(self, time) ==
    LET counting == [self EXCEPT !.logs_since_cleared =
                                    self.logs_since_cleared + 1]
    IN  IF counting.logs_since_cleared > counting.clear_interval
        THEN [ClearInactive(counting, time) EXCEPT !.logs_since_cleared = 0]
        ELSE counting

\* Mutant: a gap of exactly inactive_limit seconds extends the session.
LogInactive_Exclusive(self, host, time) ==
    time - self.active_sessions[host][2] > self.inactive_limit

\* log: idle_time >= self.inactive_limit
LogInactive(self, host, time) ==
    time - self.active_sessions[host][2] >= self.inactive_limit

\* Sessions.log
Log(self, host, time) ==
    LET swept == MaybeSweep(self, time)
    IN  IF host \notin DOMAIN swept.active_sessions
        THEN [swept EXCEPT !.active_sessions =
                              DictSet(swept.active_sessions, host,
                                      <<time, time>>)]
        ELSE IF LogInactive(swept, host, time)
        THEN [SaveSession(swept, swept.active_sessions[host])
                EXCEPT !.active_sessions =
                          DictSet(swept.active_sessions, host,
                                  <<time, time>>)]
        ELSE [swept EXCEPT !.active_sessions =
                              DictSet(swept.active_sessions, host,
                                      <<swept.active_sessions[host][1],
                                        time>>)]

\* The value of (nsessions, total_length / nsessions, max_length), or the
\* ZeroDivisionError the division raises.
Statistics(self) ==
    IF self.nsessions = 0
    THEN [error |-> "ZeroDivisionError", n |-> 0, avg |-> <<0, 1>>,
          max |-> 0]
    ELSE [error |-> None, n |-> self.nsessions,
          avg |-> Quotient(self.total_length, self.nsessions),
          max |-> self.max_length]

\* Sessions.summary_statistics: the object after the call, and its outcome
SummaryStatistics(self) ==
    LET cleared == ClearAll(self)
    IN  [self |-> cleared, ret |-> Statistics(cleared)]

\* The object after the log calls of a sequence, in order.
RECURSIVE LogAll(_, _)
LogAll(self, calls) ==
    IF calls = <<>> THEN self
    ELSE LogAll(Log(self, Head(calls).host, Head(calls).time), Tail(calls))

InitSess ==
    /\ \E inactive_limit \in (1..MaxLimit) \cup {DefaultInactiveLimit},
          clear_interval \in 0..MaxInterval :
          sessions = SessionsInit(inactive_limit, clear_interval)
    /\ logged = <<>>
    /\ returned = <<>>
    /\ sessBefore = sessions

IdleSess ==
    /\ sessions = SessionsInit(DefaultInactiveLimit, DefaultClearInterval)
    /\ logged = <<>>
    /\ returned = <<>>
    /\ sessBefore = sessions

\* One log call, as in main's loop: times do not decrease, and the calls
\* come before summary_statistics.
LogCall ==
    \E host \in Hosts, time \in SessTimes :
        /\ returned = <<>>
        /\ Len(logged) < MaxLogs
        /\ logged # <<>> => time >= Last(logged).time
        /\ sessions' = Log(sessions, host, time)
        /\ sessBefore' = sessions
        /\ logged' = Append(logged, [host |-> host, time |-> time])
        /\ UNCHANGED returned

\* summary_statistics, called once and then once more.
SummaryCall ==
    /\ Len(returned) < 2
    /\ LET r == SummaryStatistics(sessions)
       IN  /\ sessions' = r.self
           /\ returned' = Append(returned, r.ret)
    /\ sessBefore' = sessions
    /\ UNCHANGED logged

(***************************************************************************)
(* main                                                                    *)
(***************************************************************************)
\* top_hours = TopKDict(10)
MainTopK == 10

\* (time - recent_timestamps[0]).total_seconds() > 3600.0
HourSeconds == 3600

\* host_requests_tuples[0:10], resource_bytes_tuples[0:10]
ReportLength == 10

Min(a, b) == IF a <= b THEN a ELSE b

\* A line of the log file, as read in binary mode: whether it matches
\* LINE_PATTERN, the groups of the match, and whether its bytes are valid
\* utf-8.  The request is its words and the blanks between them; the bytes
\* field is "-" (dash) or a number.
RawLine(fmt, host, time, request, code, dash, n, bytes) ==
    [fmt |-> fmt, host |-> host, time |-> time, request |-> request,
     code |-> code, nbytes |-> [dash |-> dash, n |-> n], bytes |-> bytes]

LoginRequest == <<"POST", " ", "/login", " ", "HTTP/1.0">>
OtherRequest == <<"GET", " ", "/x">>
ShortRequest == <<"POST">>

\* Lines that differ in their timestamp only, around the length of an hour.
WindowTimes == {0, 1, 3600, 3601, 3602, 7201}

WindowLines ==
    {RawLine(TRUE, "a", t, OtherRequest, 200, FALSE, 2, "utf-8") :
        t \in WindowTimes}

\* Lines of every kind the loop tells apart, and one that is not in the
\* format.
MainTimes == {0, 1}

MainLines ==
    UNION {{RawLine(TRUE, "a", t, LoginRequest, 401, FALSE, 1, "utf-8"),
            RawLine(TRUE, "a", t, LoginRequest, 400, FALSE, 1, "utf-8"),
            RawLine(TRUE, "a", t, LoginRequest, 200, FALSE, 1, "invalid"),
            RawLine(TRUE, "a", t, OtherRequest, 200, TRUE, 0, "utf-8"),
            RawLine(TRUE, "a", t, ShortRequest, 200, FALSE, 2, "utf-8")} :
           t \in MainTimes}
      \cup {RawLine(FALSE, "a", 0, OtherRequest, 200, FALSE, 2, "utf-8")}

\* codecs.decode(rawline, 'utf-8', 'replace')
Decode(rawline) ==
    [rawline EXCEPT !.bytes = IF @ = "invalid" THEN "replaced" ELSE @]

\* parse_line: the ValueError, or the five values returned
ParseLine(line) ==
    IF ~line.fmt
    THEN [error |-> "ValueError", host |-> None, time |-> 0,
          request |-> <<>>, code |-> 0, nbytes |-> 0]
    ELSE [error |-> None, host |-> line.host, time |-> line.time,
          request |-> line.request, code |-> line.code,
          nbytes |-> IF line.nbytes.dash THEN 0 ELSE line.nbytes.n]

\* request.split()
IsWord(w) == w # " "

Split(request) == SelectSeq(request, IsWord)

\* counter[key] += n
Incr(counter, key, n) ==
    DictSet(counter, key,
            (IF key \in DOMAIN counter THEN counter[key] ELSE 0) + n)

\* Mutant: the hour has ended when the line is exactly an hour later.
WindowEnded_Inclusive(time, head) == time - head >= HourSeconds

\* (time - recent_timestamps[0]).total_seconds() > 3600.0
WindowEnded(time, head) == time - head > HourSeconds

\* Mutant: the requests are counted after the first has been taken out.
WindowCount_AfterPop(queue) == Len(queue) - 1

\* n = len(recent_timestamps)
WindowCount(queue) == Len(queue)

\* The hourly window: the queue, top_hours, and the pairs set so far.
\* n = len(recent_timestamps); hour_start = recent_timestamps.popleft();
\* top_hours[hour_start] = n
CloseHead(w) ==
    LET n == WindowCount(w.queue)
        hour_start == Head(w.queue)
    IN  [queue |-> Tail(w.queue),
         top |-> SetItem(w.top, hour_start, n),
         closed |-> Append(w.closed, [start |-> hour_start, n |-> n])]

\* the while loop at the head of the loop body
RECURSIVE Advance(_, _)
Advance(w, time) ==
    IF w.queue # <<>> /\ WindowEnded(time, Head(w.queue))
    THEN Advance(CloseHead(w), time)
    ELSE w

\* Mutant: what is left in the queue at the end is dropped.
Flush_Discard(w) == [w EXCEPT !.queue = <<>>]

\* the while loop after the files have been closed
RECURSIVE Flush(_)
Flush(w) == IF w.queue = <<>> THEN w ELSE Flush(CloseHead(w))

\* Mutant: lines with code 400 are tokenized like the others.
Skipped_Keep400(code, words) == Len(words) < 2

\* if code == 400: continue; try: ... words[1] except: continue
Skipped(code, words) == code = 400 \/ Len(words) < 2

\* if method == 'POST' and resource == '/login'
IsLogin(words) == words[1] = "POST" /\ words[2] = "/login"

\* sorted(counter.items(), key=itemgetter(0)): the keys in ascending order
HostsAscending == <<"a", "b">>
ResourcesAscending == <<"/login", "/x">>

RECURSIVE Ascending(_)
Ascending(S) ==
    IF S = {} THEN <<>>
    ELSE LET least == CHOOSE x \in S : \A y \in S : x <= y
         IN  <<least>> \o Ascending(S \ {least})

InCounter(counter, order) ==
    LET Present(key) == key \in DOMAIN counter
    IN  SelectSeq(order, Present)

\* tuples.sort(key=itemgetter(1), reverse=True); tuples[0:10]
TopTuples(counter, order) ==
    LET keys == SortDesc(InCounter(counter, order), counter)
    IN  [i \in 1..Min(ReportLength, Len(keys)) |->
            [name |-> keys[i], count |-> counter[keys[i]]]]

\* sorted(top_hours.items(), key=lambda t: t[1], reverse=True); the items
\* come in the order in which the keys were set, which is ascending for
\* timestamps that do not decrease
HourTuples(top) ==
    LET keys == SortDesc(Ascending(DOMAIN top.items), top.items)
    IN  [i \in 1..Len(keys) |->
            [name |-> keys[i], count |-> top.items[keys[i]]]]

Unopened == [open |-> FALSE, lines |-> <<>>]

Written(lines) == [open |-> TRUE, lines |-> lines]

\* The state when the loop over the log file begins: the structures are
\* empty, and block_file has been opened for writing.
MainBegin ==
    /\ pc = "reading"
    /\ nlines = 0
    /\ host_requests = EmptyDict
    /\ resource_bytes = EmptyDict
    /\ recent_timestamps = <<>>
    /\ files = [hosts |-> Unopened, hours |-> Unopened,
                resources |-> Unopened, blocked |-> Written(<<>>),
                sessions |-> Unopened]
    /\ input = <<>>
    /\ handled = <<>>
    /\ closed = <<>>

\* The history of the classes' own specifications, left as it began.
IdleHistory ==
    /\ offer = [key |-> None, value |-> 0]
    /\ maxOffered = EmptyDict
    /\ maxSince = EmptyDict
    /\ exPos = 0
    /\ before = topk
    /\ call = [host |-> None, time |-> 0, success |-> FALSE]
    /\ ret = FALSE
    /\ blBefore = blocklist
    /\ recent = [h \in Hosts |-> <<>>]
    /\ counted = 0
    /\ scen = 0
    /\ solo = [h \in Hosts |-> blocklist]
    /\ soloRet = FALSE
    /\ logged = <<>>
    /\ returned = <<>>
    /\ sessBefore = sessions

history ==
    <<offer, maxOffered, maxSince, exPos, before, call, ret, blBefore,
      recent, counted, scen, solo, soloRet, logged, returned, sessBefore>>

InitMain ==
    /\ topk = TopKDictInit(MainTopK)
    /\ blocklist = BlockListInit(MainFailLimit, MainFailTime, MainBlockTime)
    /\ sessions = SessionsInit(DefaultInactiveLimit, DefaultClearInterval)
    /\ MainBegin
    /\ IdleHistory

\* One pass of the loop over the lines of the log, for a line of the set L.
\* The timestamps of the lines do not decrease.
ReadLine(L) ==
    \E rawline \in L :
        /\ pc = "reading"
        /\ Len(input) < MaxLines
        /\ (rawline.fmt /\ input # <<>>) => rawline.time >= Last(input).time
        /\ LET line == Decode(rawline)
               p == ParseLine(line)
               w == Advance([queue |-> recent_timestamps, top |-> topk,
                             closed |-> closed], p.time)
               words == Split(p.request)
               skip == Skipped(p.code, words)
               login == ~skip /\ IsLogin(words)
               r == Handle(blocklist, p.host, p.time, p.code = 200)
           IN  /\ nlines' = nlines + 1
               /\ input' = Append(input, rawline)
               /\ IF p.error # None
                  THEN /\ pc' = p.error
                       /\ UNCHANGED <<topk, blocklist, sessions,
                                      host_requests, resource_bytes,
                                      recent_timestamps, files, handled,
                                      closed>>
                  ELSE /\ pc' = pc
                       /\ host_requests' = Incr(host_requests, p.host, 1)
                       /\ recent_timestamps' = Append(w.queue, p.time)
                       /\ topk' = w.top
                       /\ closed' = w.closed
                       /\ sessions' = Log(sessions, p.host, p.time)
                       /\ resource_bytes' =
                             IF skip THEN resource_bytes
                             ELSE Incr(resource_bytes, words[2], p.nbytes)
                       /\ blocklist' = IF login THEN r.self ELSE blocklist
                       /\ handled' =
                             IF login
                             THEN Append(handled,
                                         [rawline |-> rawline,
                                          host |-> p.host, time |-> p.time,
                                          success |-> (p.code = 200),
                                          ret |-> r.ret])
                             ELSE handled
                       /\ files' =
                             IF login /\ r.ret
                             THEN [files EXCEPT !.blocked.lines =
                                                   Append(@, line)]
                             ELSE files
        /\ UNCHANGED history

\* The end of the log file: the queue is emptied into top_hours and the
\* reports are written, the session statistics last.
EndOfInput ==
    /\ pc = "reading"
    /\ LET w == Flush([queue |-> recent_timestamps, top |-> topk,
                       closed |-> closed])
           s == SummaryStatistics(sessions)
       IN  /\ recent_timestamps' = w.queue
           /\ topk' = w.top
           /\ closed' = w.closed
           /\ sessions' = s.self
           /\ pc' = IF s.ret.error # None THEN s.ret.error ELSE "done"
           /\ files' =
                 [files EXCEPT
                    !.hosts = Written(TopTuples(host_requests,
                                                HostsAscending)),
                    !.resources = Written(TopTuples(resource_bytes,
                                                    ResourcesAscending)),
                    !.hours = Written(HourTuples(w.top)),
                    !.sessions =
                       IF s.ret.error # None THEN Written(<<>>)
                       ELSE Written(<<s.ret.n, s.ret.avg, s.ret.max>>)]
    /\ UNCHANGED <<nlines, host_requests, resource_bytes, input, handled,
                   blocklist, history>>

(***************************************************************************)
(* Specifications: one per class, the other objects left untouched, and    *)
(* two of main.                                                            *)
(***************************************************************************)
NextTopK == Offer /\ UNCHANGED <<blockVars, sessVars, mainVars>>

StartTopK == InitTopK /\ IdleBlock /\ IdleSess /\ MainBegin

SpecTopK == StartTopK /\ [][NextTopK]_vars

NextBlock == HandleAt(Times) /\ UNCHANGED <<scen, topkVars, sessVars, mainVars>>

StartBlock == IdleTopK /\ InitBlock /\ IdleSess /\ MainBegin

SpecBlock == StartBlock /\ [][NextBlock]_vars

NextBlockTest ==
    HandleAt(TestTimes) /\ FollowScenario /\ UNCHANGED <<topkVars, sessVars, mainVars>>

StartBlockTest == IdleTopK /\ InitBlockTest /\ IdleSess /\ MainBegin

SpecBlockTest == StartBlockTest /\ [][NextBlockTest]_vars

StartBlockMain == IdleTopK /\ InitBlockMain /\ IdleSess /\ MainBegin

NextBlockMain ==
    HandleAt(MainBlockTimes) /\ UNCHANGED <<scen, topkVars, sessVars, mainVars>>

SpecBlockMain == StartBlockMain /\ [][NextBlockMain]_vars

NextSess ==
    \/ LogCall /\ UNCHANGED <<topkVars, blockVars, mainVars>>
    \/ SummaryCall /\ UNCHANGED <<topkVars, blockVars, mainVars>>

StartSess == IdleTopK /\ IdleBlock /\ InitSess /\ MainBegin

SpecSess == StartSess /\ [][NextSess]_vars

NextWindow ==
    \/ ReadLine(WindowLines)
    \/ EndOfInput

SpecWindow == InitMain /\ [][NextWindow]_vars

NextMain ==
    \/ ReadLine(MainLines)
    \/ EndOfInput

SpecMain == InitMain /\ [][NextMain]_vars

(***************************************************************************)
(* Claims about TopKDict, checked under SpecTopK.                          *)
(***************************************************************************)
Size(self) == Cardinality(DOMAIN self.items)

MinValue(self) ==
    CHOOSE m \in {self.items[x] : x \in DOMAIN self.items} :
        \A x \in DOMAIN self.items : m <= self.items[x]

\* C1: after every d[key] = value call a TopKDict(K), K >= 1, holds at most
\* K entries, and every retained value is >= every value that was ever
\* offered for a key that is not retained.
C1_TopKBound ==
    /\ Size(topk) <= topk.k
    /\ \A x \in DOMAIN topk.items :
          \A y \in DOMAIN maxOffered \ DOMAIN topk.items :
              topk.items[x] >= maxOffered[y]

\* The map is full, the last offer was turned away, and another key that
\* was offered earlier is not retained either.
C1_Witness ==
    /\ offer.key # None
    /\ Size(topk) = topk.k
    /\ offer.key \notin DOMAIN topk.items
    /\ \E y \in DOMAIN maxOffered \ DOMAIN topk.items : y # offer.key

\* C2: an offer for a key that is already present replaces the stored value
\* iff the offered value is strictly greater; otherwise the whole map is
\* left as it was.  So the value stored for a retained key is the greatest
\* value offered for it since it was last inserted.
C2_ExistingKey ==
    /\ (offer.key # None /\ offer.key \in DOMAIN before.items) =>
          IF offer.value > before.items[offer.key]
          THEN topk.items = DictSet(before.items, offer.key, offer.value)
          ELSE topk = before
    /\ \A x \in DOMAIN topk.items : topk.items[x] = maxSince[x]

\* A present key was offered a strictly greater value, which replaced the
\* stored one.
C2_Witness ==
    /\ offer.key # None
    /\ offer.key \in DOMAIN before.items
    /\ offer.value > before.items[offer.key]
    /\ topk.items[offer.key] = offer.value

\* C3: an offer for an absent key to a full TopKDict inserts the pair only
\* if the value is strictly greater than the least stored value, and then
\* removes exactly one entry, one that holds that least value; otherwise the
\* map is unchanged.  TopKDict(2) offered a:1, b:2, c:3, d:4 in that order
\* ends as exactly {c:3, d:4}.
C3_FullMap ==
    /\ (/\ offer.key # None
        /\ offer.key \notin DOMAIN before.items
        /\ Size(before) = before.k) =>
          IF offer.value > MinValue(before)
          THEN \E victim \in DOMAIN before.items :
                  /\ before.items[victim] = MinValue(before)
                  /\ topk.items = DictSet(DictDel(before.items, victim),
                                          offer.key, offer.value)
          ELSE topk = before
    /\ (exPos = Len(Example) /\ topk.k = 2) =>
          topk.items = ("c" :> 3 @@ "d" :> 4)

\* The example has been fed to a TopKDict(2): its last offer, d:4, found
\* the map full and key d absent.
C3_Witness ==
    /\ exPos = Len(Example)
    /\ topk.k = 2
    /\ Size(before) = before.k
    /\ offer.key \notin DOMAIN before.items
    /\ offer.value > MinValue(before)


(***************************************************************************)
(* Claims about BlockList, checked under SpecBlock (C5: SpecBlockTest).    *)
(***************************************************************************)
Called == call.host # None

\* At the start of the last call its host was in the blocking map and no
\* more than block_time seconds had passed since the block started.
BlockedAtCall ==
    /\ call.host \in DOMAIN blBefore.blocking
    /\ call.time - blBefore.blocking[call.host] <= blBefore.block_time

\* C4: with non-decreasing times, handle(host, time, success) returns true
\* iff at the start of the call host is in the blocking map and
\* time - blockStart[host] <= block_time (inclusive); the failed attempt
\* that triggers a block itself returns false.
C4_BlockedIff ==
    Called =>
        /\ ret <=> BlockedAtCall
        /\ Moved(blBefore, blocklist, call.host) => ~ret

\* A call made exactly block_time (> 0) seconds after the block started is
\* answered as blocked.
C4_Witness ==
    /\ Called
    /\ ret
    /\ blBefore.block_time > 0
    /\ call.time - blBefore.blocking[call.host] = blBefore.block_time

\* The scenario's calls for host b, as far as the state shows them.
ScenarioFirstParts ==
    /\ scen = 1 => /\ ~ret
                   /\ "b" \notin DOMAIN blocklist.blocking
    /\ scen = 2 => /\ ~ret
                   /\ "b" \in DOMAIN blocklist.blocking
                   /\ blocklist.blocking["b"] = TestFailTime
    /\ (scen = 3 /\ call.time # 69) => ret

FreshCount ==
    /\ ~ret
    /\ "b" \notin DOMAIN blocklist.blocking
    /\ IF call.success
       THEN "b" \notin DOMAIN blocklist.failures
       ELSE /\ "b" \in DOMAIN blocklist.failures
            /\ blocklist.failures["b"] = <<call.time>>

\* C5 as stated: with fail_limit=2, fail_time=10, block_time=60, failures
\* for b at t=0 and t=10 both return false, the next call within block_time
\* returns true even if it is a success, and a call at t=69 returns false
\* and, if it is a failure, starts a fresh failure count of one.
C5_Original ==
    (Called /\ call.host = "b") =>
        /\ ScenarioFirstParts
        /\ (scen \in {3, 4} /\ call.time = 69) => FreshCount

\* C5 as amended: with fail_limit=2, fail_time=10, block_time=60, failures
\* for b at t=0 and t=10 both return false and b is blocked from t=10;
\* every later call for b up to and including t=70 (so also one at t=69)
\* returns true even if it is a success; the first call for b after t=70
\* returns false and, if it is a failure, starts a fresh failure count of
\* one.
C5_Scenario ==
    (Called /\ call.host = "b") =>
        /\ ScenarioFirstParts
        /\ scen = 3 => (ret /\ blocklist = blBefore)
        /\ scen = 4 => FreshCount

\* After the failures at 0 and 10 and a blocked call, b's first call after
\* the block (at 71) was a failure.
C5_Witness ==
    /\ scen = 4
    /\ call = [host |-> "b", time |-> 71, success |-> FALSE]
    /\ blBefore.blocking = ("b" :> TestFailTime)

\* C6: with non-decreasing times, a call moves host h into the blocking map
\* iff it is a failed attempt at time t that is not answered as blocked and,
\* counting it, h has at least fail_limit such failures with timestamps in
\* [t - fail_time, t] since h's most recent unblocked success or block; the
\* block start is then t and h's failure history is deleted.
C6_BlockIff ==
    Called =>
        /\ \A h \in Hosts :
              Moved(blBefore, blocklist, h) <=>
                  /\ h = call.host
                  /\ ~call.success
                  /\ ~ret
                  /\ counted >= blocklist.fail_limit
        /\ Moved(blBefore, blocklist, call.host) =>
              /\ blocklist.blocking[call.host] = call.time
              /\ call.host \notin DOMAIN blocklist.failures

\* A host is blocked by its second failure, made exactly fail_time (> 0)
\* seconds after the first.
C6_Witness ==
    /\ Called
    /\ Moved(blBefore, blocklist, call.host)
    /\ blocklist.fail_limit = 2
    /\ blocklist.fail_time > 0
    /\ call.host \in DOMAIN blBefore.failures
    /\ blBefore.failures[call.host] = <<call.time - blocklist.fail_time>>

\* C7: a successful login by a host that is not currently blocked clears
\* that host's failure history and returns false, so failures recorded
\* before the success never count toward a later block: after it the host
\* needs fail_limit new failures within fail_time to be blocked.
C7_SuccessClears ==
    Called =>
        /\ (call.success /\ ~BlockedAtCall) =>
              /\ ~ret
              /\ call.host \notin DOMAIN blocklist.failures
              /\ call.host \notin DOMAIN blocklist.blocking
              /\ recent[call.host] = <<>>
        /\ \A h \in Hosts :
              Moved(blBefore, blocklist, h) =>
                  counted >= blocklist.fail_limit
        /\ \A h \in Hosts :
              h \in DOMAIN blocklist.failures =>
                  Len(blocklist.failures[h]) <= Len(recent[h])

\* A host with a recorded failure logs in successfully while unblocked.
C7_Witness ==
    /\ Called
    /\ call.success
    /\ ~ret
    /\ call.host \in DOMAIN blBefore.failures
    /\ call.host \notin DOMAIN blocklist.failures

\* C17: after every handle call (non-decreasing times, fail_limit >= 1) no
\* host is in both the blocking map and the failures map, and every stored
\* failure list is non-empty, shorter than fail_limit, non-decreasing, and
\* has all its entries within fail_time seconds of its most recent entry.
C17_LedgerShape ==
    /\ DOMAIN blocklist.blocking \cap DOMAIN blocklist.failures = {}
    /\ \A h \in DOMAIN blocklist.failures :
          LET f == blocklist.failures[h]
          IN  /\ Len(f) >= 1
              /\ Len(f) < blocklist.fail_limit
              /\ \A i \in 1..(Len(f) - 1) : f[i] <= f[i + 1]
              /\ \A i \in 1..Len(f) : Last(f) - f[i] <= blocklist.fail_time

\* A failure has been recorded for a host whose stored list of two began
\* with one that was too old by then: the list after the call holds the
\* later of the two and the new one, while another host is blocked.
C17_Witness ==
    /\ Called
    /\ call.host \in DOMAIN blBefore.failures
    /\ Len(blBefore.failures[call.host]) = 2
    /\ call.host \in DOMAIN blocklist.failures
    /\ Len(blocklist.failures[call.host]) = 2
    /\ blocklist.failures[call.host][1] = blBefore.failures[call.host][2]
    /\ blocklist.blocking # EmptyDict

\* C18: a handle call that returns true changes no state at all: the
\* blocking map, with the host's block start, and the failures map are as
\* before, so attempts made during a block neither extend it nor count as
\* failures; a host leaves the blocking map only through a handle call for
\* that host made more than block_time seconds after its block start.
C18_BlockedFrame ==
    Called =>
        /\ ret => blocklist = blBefore
        /\ \A h \in DOMAIN blBefore.blocking :
              (\/ h \notin DOMAIN blocklist.blocking
               \/ blocklist.blocking[h] # blBefore.blocking[h]) =>
                  /\ h = call.host
                  /\ call.time - blBefore.blocking[h] > blBefore.block_time

\* A failed attempt made after the block started, and within it, is
\* answered as blocked.
C18_Witness ==
    /\ Called
    /\ ret
    /\ ~call.success
    /\ call.time > blBefore.blocking[call.host]

\* What the object holds for one host.
Entry(self, h) ==
    [blocking |-> IF h \in DOMAIN self.blocking
                  THEN <<self.blocking[h]>> ELSE <<>>,
     failures |-> IF h \in DOMAIN self.failures
                  THEN <<self.failures[h]>> ELSE <<>>]

\* C19: BlockList is per-host independent: a call for host h leaves the
\* blocking and failures entries of every other host unchanged, and the
\* results returned for h are those of running only h's calls, in the same
\* order, on a fresh BlockList with the same parameters.
C19_PerHost ==
    Called =>
        /\ ret = soloRet
        /\ \A h \in Hosts \ {call.host} :
              Entry(blocklist, h) = Entry(blBefore, h)
        /\ \A h \in Hosts : Entry(blocklist, h) = Entry(solo[h], h)

\* A call for one host is answered as blocked while the other host has a
\* failure on record.
C19_Witness ==
    /\ Called
    /\ ret
    /\ \E h \in Hosts \ {call.host} : h \in DOMAIN blocklist.failures

(***************************************************************************)
(* Claims about Sessions, checked under SpecSess.                          *)
(***************************************************************************)
\* The object of a tracker with the same inactive_limit that is fed the same
\* log calls and never sweeps: the interval of 100000 calls is never reached.
NeverSwept ==
    LogAll(SessionsInit(sessions.inactive_limit, DefaultClearInterval),
           logged)

\* The object as it was when the log calls ended, before any summary.
AfterLogs ==
    LogAll(SessionsInit(sessions.inactive_limit, sessions.clear_interval),
           logged)

\* C8: for every sequence of log calls with non-decreasing times and every
\* sweep interval, summary_statistics returns the same (count, average,
\* maximum) as a tracker that processes the same calls and never sweeps.
C8_SweepNeutral ==
    /\ returned = <<>> =>
          SummaryStatistics(sessions).ret = SummaryStatistics(NeverSwept).ret
    /\ returned # <<>> =>
          returned[1] = SummaryStatistics(NeverSwept).ret

\* The summary has been returned after log calls during which the sweep
\* closed a session that the tracker without sweep still held active.
C8_Witness ==
    /\ Len(returned) = 1
    /\ AfterLogs.nsessions > NeverSwept.nsessions

\* The sessions of a sequence of log calls, read off the sequence: call i
\* opens a session when its host's previous call is missing or at least
\* limit seconds earlier; the session runs to the host's last call before
\* its next opening.
Earlier(calls, i) == {j \in 1..(i - 1) : calls[j].host = calls[i].host}

Greatest(S) == CHOOSE m \in S : \A x \in S : x <= m

Opens(calls, i, limit) ==
    \/ Earlier(calls, i) = {}
    \/ calls[i].time - calls[Greatest(Earlier(calls, i))].time >= limit

RunEnd(calls, i, limit) ==
    Greatest({j \in i..Len(calls) :
                /\ calls[j].host = calls[i].host
                /\ \A m \in (i + 1)..j :
                      calls[m].host = calls[i].host => ~Opens(calls, m, limit)})

RunLength(calls, i, limit) ==
    calls[RunEnd(calls, i, limit)].time - calls[i].time

Runs(calls, limit) == {i \in 1..Len(calls) : Opens(calls, i, limit)}

RECURSIVE TotalLength(_, _, _)
TotalLength(calls, runs, limit) ==
    IF runs = {} THEN 0
    ELSE LET i == CHOOSE r \in runs : TRUE
         IN  RunLength(calls, i, limit)
             + TotalLength(calls, runs \ {i}, limit)

ExpectedStatistics(calls, limit) ==
    LET runs == Runs(calls, limit)
    IN  IF runs = {}
        THEN [error |-> "ZeroDivisionError", n |-> 0, avg |-> <<0, 1>>,
              max |-> 0]
        ELSE [error |-> None,
              n |-> Cardinality(runs),
              avg |-> Quotient(TotalLength(calls, runs, limit),
                               Cardinality(runs)),
              max |-> Greatest({RunLength(calls, i, limit) : i \in runs})]

ExampleCalls ==
    << [host |-> "a", time |-> 0], [host |-> "a", time |-> 100],
       [host |-> "a", time |-> 2000] >>

\* C9: for log calls with non-decreasing times followed by
\* summary_statistics, the sessions counted are exactly the maximal runs of
\* each host's requests whose consecutive gaps are all strictly below
\* inactive_limit, each with duration last - first; one host at t=0, 100,
\* 2000 with limit 1800 gives count 2, average 50.0, maximum 100.0.
C9_MaximalRuns ==
    /\ returned = <<>> =>
          SummaryStatistics(sessions).ret
              = ExpectedStatistics(logged, sessions.inactive_limit)
    /\ returned # <<>> =>
          returned[1] = ExpectedStatistics(logged, sessions.inactive_limit)
    /\ (/\ returned # <<>>
        /\ logged = ExampleCalls
        /\ sessions.inactive_limit = DefaultInactiveLimit) =>
          returned[1] = [error |-> None, n |-> 2, avg |-> <<50, 1>>,
                         max |-> 100]

\* The summary of the example has been returned.
C9_Witness ==
    /\ Len(returned) = 1
    /\ logged = ExampleCalls
    /\ sessions.inactive_limit = DefaultInactiveLimit

\* C10: calling summary_statistics twice in a row after log calls that
\* yield at least one session does not double-count: the second call
\* returns the same (count, average, maximum) as the first, and every
\* session is folded into the running totals exactly once.
C10_SummaryTwice ==
    (Len(returned) = 2 /\ logged # <<>>) =>
        /\ returned[1].error = None
        /\ returned[2] = returned[1]
        /\ sessions.nsessions
              = Cardinality(Runs(logged, sessions.inactive_limit))
        /\ sessions.total_length
              = TotalLength(logged, Runs(logged, sessions.inactive_limit),
                            sessions.inactive_limit)

\* summary_statistics has returned twice after log calls that left sessions
\* of two hosts active.
C10_Witness ==
    /\ Len(returned) = 2
    /\ Cardinality(DOMAIN AfterLogs.active_sessions) = 2
    /\ returned[2].n >= 2

\* The hosts whose session the last call closed: the host had a session
\* before the call, and has none, or one with another start, after it.
ClosedHosts ==
    {h \in DOMAIN sessBefore.active_sessions :
        \/ h \notin DOMAIN sessions.active_sessions
        \/ sessions.active_sessions[h][1] # sessBefore.active_sessions[h][1]}

ClosedLength(h) ==
    sessBefore.active_sessions[h][2] - sessBefore.active_sessions[h][1]

RECURSIVE SumClosed(_)
SumClosed(hosts) ==
    IF hosts = {} THEN 0
    ELSE LET h == CHOOSE x \in hosts : TRUE
         IN  ClosedLength(h) + SumClosed(hosts \ {h})

\* C20: after any sequence of log calls with non-decreasing times every
\* active session has start <= last seen, and the running totals (count, sum
\* of durations, maximum duration) change only in a step that closes a
\* session (the timeout in log, the periodic sweep, the final flush); each
\* closing adds one to the count and last seen - start >= 0 to the sum.
C20_TotalsOnClose ==
    /\ \A h \in DOMAIN sessions.active_sessions :
          sessions.active_sessions[h][1] <= sessions.active_sessions[h][2]
    /\ \A h \in ClosedHosts : ClosedLength(h) >= 0
    /\ sessions.nsessions = sessBefore.nsessions + Cardinality(ClosedHosts)
    /\ sessions.total_length =
          sessBefore.total_length + SumClosed(ClosedHosts)
    /\ sessions.max_length =
          Greatest({sessBefore.max_length}
                       \cup {ClosedLength(h) : h \in ClosedHosts})

\* A log call has closed a session of positive length by its timeout and
\* opened the next one for the host, while another host stays active.
C20_Witness ==
    /\ logged # <<>>
    /\ returned = <<>>
    /\ ClosedHosts = {Last(logged).host}
    /\ ClosedLength(Last(logged).host) > 0
    /\ Last(logged).host \in DOMAIN sessions.active_sessions
    /\ DOMAIN sessions.active_sessions = Hosts


(***************************************************************************)
(* Claims about main: the hourly window                                    *)
(***************************************************************************)
Matches(rawline) == rawline.fmt

\* The timestamps given to the window: those of the lines that parsed.
Fed ==
    LET parsed == SelectSeq(input, Matches)
    IN  [i \in 1..Len(parsed) |-> parsed[i].time]

\* The queue has been emptied at the end of the input.
Flushed == pc \in {"done", "ZeroDivisionError"}

Starts == [i \in 1..Len(closed) |-> closed[i].start]

RECURSIVE SumCounts(_)
SumCounts(pairs) ==
    IF pairs = <<>> THEN 0 ELSE Head(pairs).n + SumCounts(Tail(pairs))

Increasing(s) == \A i \in 1..(Len(s) - 1) : s[i] < s[i + 1]

NonDecreasing(s) == \A i \in 1..(Len(s) - 1) : s[i] <= s[i + 1]

\* No two of the timestamps are within an hour of each other.
HoursApart(s) ==
    \A i \in 1..Len(s) : \A j \in (i + 1)..Len(s) : s[j] - s[i] > HourSeconds

\* C12, as the specification states it: when the hourly window is fed an
\* increasing sequence of timestamps and then flushed, the sum of the counts
\* of all closed buckets equals the number of timestamps fed.
C12_Original ==
    (Flushed /\ Increasing(Fed)) => SumCounts(closed) = Len(Fed)

\* C12, amended: when the hourly window is fed a non-decreasing sequence of
\* timestamps and then flushed, the number of closed buckets equals the
\* number of timestamps fed; the sum of their counts is at least that
\* number, and equals it exactly when no two of the timestamps are within
\* 3600 seconds of each other.
C12_Buckets ==
    Flushed =>
        /\ Len(closed) = Len(Fed)
        /\ SumCounts(closed) >= Len(Fed)
        /\ SumCounts(closed) = Len(Fed) <=> HoursApart(Fed)

\* An increasing sequence has been fed and flushed; the first bucket was
\* closed by a later line, others by the flush, and the counts add up to
\* more than the number of timestamps.
C12_Witness ==
    /\ pc = "done"
    /\ Increasing(Fed)
    /\ Len(Fed) >= 3
    /\ Last(Fed) - Fed[1] > HourSeconds
    /\ SumCounts(closed) > Len(Fed)

Recent(t) == Last(Fed) - t <= HourSeconds

Older(t) == Last(Fed) - t > HourSeconds

\* C15: after every advance of the hourly window over a non-decreasing
\* sequence of timestamps, the queue is non-decreasing and holds exactly
\* the fed timestamps t, with multiplicity, for which ts - t <= 3600; every
\* older one has been taken out and set in top_hours, in arrival order.
C15_WindowContents ==
    (pc = "reading" /\ Fed # <<>>) =>
        /\ NonDecreasing(recent_timestamps)
        /\ recent_timestamps = SelectSeq(Fed, Recent)
        /\ Starts = SelectSeq(Fed, Older)
        /\ \A i \in 1..Len(Starts) : Starts[i] \in DOMAIN topk.items

\* A line has come exactly an hour after the oldest timestamp in the queue,
\* which stays, after older ones have been taken out.
C15_Witness ==
    /\ pc = "reading"
    /\ Len(closed) >= 2
    /\ Len(recent_timestamps) >= 2
    /\ Last(recent_timestamps) - Head(recent_timestamps) = HourSeconds

\* The fed timestamps from the i-th on that are within an hour of it.
Following(i) == {j \in i..Len(Fed) : Fed[j] - Fed[i] <= HourSeconds}

InHourFrom(t0) ==
    {j \in 1..Len(Fed) : t0 <= Fed[j] /\ Fed[j] <= t0 + HourSeconds}

\* C16: for a non-decreasing sequence of timestamps fed to the hourly
\* window and then flushed, every fed timestamp is taken out and offered
\* exactly once, with the length of the queue just before as its count, and
\* for every distinct timestamp t0 the largest count offered under key t0,
\* which is the one top_hours keeps, is the number of fed timestamps t with
\* t0 <= t <= t0 + 3600.
C16_BucketCounts ==
    Flushed =>
        /\ Starts = Fed
        /\ \A i \in 1..Len(closed) : closed[i].n = Cardinality(Following(i))
        /\ \A i \in 1..Len(closed) :
              LET t0 == closed[i].start
                  offered == {closed[j].n : j \in {m \in 1..Len(closed) :
                                                      closed[m].start = t0}}
              IN  /\ Greatest(offered) = Cardinality(InHourFrom(t0))
                  /\ t0 \in DOMAIN topk.items
                  /\ topk.items[t0] = Greatest(offered)

\* Two requests share a timestamp, a third follows within the hour, and
\* another hour is in top_hours as well.
C16_Witness ==
    /\ pc = "done"
    /\ \E i \in 1..(Len(Fed) - 1) :
          /\ Fed[i] = Fed[i + 1]
          /\ topk.items[Fed[i]] >= 3
          /\ closed[i + 1].n < closed[i].n
    /\ Cardinality(DOMAIN topk.items) >= 2

(***************************************************************************)
(* Claims about main: the run as a whole                                   *)
(***************************************************************************)
Reports == {"hosts", "hours", "resources", "blocked", "sessions"}

\* C11: when summary_statistics is reached with no session observed (no
\* log call was made), the division by zero in the average is guarded and
\* reported as a failure of its own: the run neither ends with the
\* exception of the division nor reports an average of zero.
C11_EmptyGuarded ==
    (pc # "reading" /\ input = <<>>) =>
        /\ pc # "ZeroDivisionError"
        /\ ~(pc = "done" /\ files.sessions.lines # <<>>)

\* C13: if a line that does not match the log format is met, the run ends
\* with no output file partially written: either all five reports are
\* written, or the failure comes before any of them has received content.
C13_AllOrNothing ==
    pc = "ValueError" =>
        \/ \A f \in Reports : files[f].open
        \/ \A f \in Reports : files[f].lines = <<>>

\* The request of a line tokenizes to method POST and resource /login.
LoginLine(rawline) ==
    /\ rawline.fmt
    /\ Len(Split(rawline.request)) >= 2
    /\ Split(rawline.request)[1] = "POST"
    /\ Split(rawline.request)[2] = "/login"

LoginLineNot400(rawline) == LoginLine(rawline) /\ rawline.code # 400

HandledLines == [i \in 1..Len(handled) |-> handled[i].rawline]

Blocked(h) == h.ret

\* The BlockList after the calls of a sequence, and what they returned.
RECURSIVE HandleAll(_, _, _)
HandleAll(self, calls, rets) ==
    IF calls = <<>> THEN [self |-> self, rets |-> rets]
    ELSE LET r == Handle(self, Head(calls).host, Head(calls).time,
                         Head(calls).success)
         IN  HandleAll(r.self, Tail(calls), Append(rets, r.ret))

HandledInOrder ==
    LET all == HandleAll(BlockListInit(MainFailLimit, MainFailTime,
                                       MainBlockTime), handled, <<>>)
    IN  /\ blocklist = all.self
        /\ all.rets = [i \in 1..Len(handled) |-> handled[i].ret]
        /\ \A i \in 1..Len(handled) :
              /\ handled[i].host = handled[i].rawline.host
              /\ handled[i].time = handled[i].rawline.time
              /\ handled[i].success = (handled[i].rawline.code = 200)

\* C14, as the specification states it: over a whole run handle is applied,
\* in arrival order and with success = (code = 200), to exactly the lines
\* whose request tokenizes to POST /login, and the blocked log is exactly
\* the verbatim lines among them for which handle returned true, in order.
C14_Original ==
    /\ HandledLines = SelectSeq(input, LoginLine)
    /\ HandledInOrder
    /\ files.blocked.lines =
          [i \in 1..Len(SelectSeq(handled, Blocked)) |->
              SelectSeq(handled, Blocked)[i].rawline]

\* C14, amended: over a whole run handle is applied, in arrival order and
\* with success = (code = 200), to exactly the lines whose code is not 400
\* and whose request tokenizes to POST /login, and the blocked log is
\* exactly the lines among them for which handle returned true, in order,
\* each as decoded from utf-8 with invalid bytes replaced.
C14_LoginLines ==
    /\ HandledLines = SelectSeq(input, LoginLineNot400)
    /\ HandledInOrder
    /\ files.blocked.lines =
          [i \in 1..Len(SelectSeq(handled, Blocked)) |->
              Decode(SelectSeq(handled, Blocked)[i].rawline)]

\* A run has met a POST /login line with code 400, and has written to the
\* blocked log a line that held invalid bytes.
C14_Witness ==
    /\ pc = "done"
    /\ \E i \in 1..Len(input) : LoginLine(input[i]) /\ input[i].code = 400
    /\ \E i \in 1..Len(files.blocked.lines) :
          files.blocked.lines[i].bytes = "replaced"

=============================================================================
